---- MODULE Spec2Model ----
(***************************************************************************)
(* State-machine model of the blog API: app/__init__.py (application and   *)
(* extension set-up), app/models.py (the relational schema) and            *)
(* app/routes.py (the HTTP handlers).  One action per route; every action  *)
(* is one whole request, from the jwt_required guard to the teardown of    *)
(* the request's database session.                                         *)
(***************************************************************************)
EXTENDS Integers, Sequences, FiniteSets, TLC

(***************************************************************************)
(* Bounds of the model.                                                    *)
(***************************************************************************)
MaxUsers == 2
MaxPosts == 1
MaxComments == 1
MaxTime == 1

(***************************************************************************)
(* Python values whose type matters.  An integer n and its decimal string  *)
(* str(n) are different values: 1 != "1" in Python.                        *)
(***************************************************************************)
PyInt(n) == [t |-> "int", v |-> n]
PyStr(n) == [t |-> "str", v |-> n]
PyNone == [t |-> "none", v |-> 0]

\* str(user.id), routes.py line 76
str(x) == PyStr(x.v)

\* a value bound to an Integer column: PostgreSQL stores '1' and 1 alike as 1
IntegerColumn(x) == x.v

\* a JSON key that the request body does not carry
Absent == "<absent>"
AbsentId == -1

\* Python truthiness of data.get(key)
Falsy(s) == s = Absent \/ s = ""

(***************************************************************************)
(* Request inputs.                                                         *)
(***************************************************************************)
Usernames == {"alice", "bob"}
NoEmail == [local |-> "", domain |-> ""]
Emails == {[local |-> "a", domain |-> "x.com"], [local |-> "b", domain |-> "x.com"]}
BadEmail == [local |-> "not-an-email", domain |-> ""]
Passwords == {"pw1", "pw2"}
Salts == {"s1"}
PostIds == 1..(MaxPosts + 1)
CommentIds == 1..(MaxComments + 1)
PostBodies == {[title |-> "t1", content |-> "c1"], [title |-> "t2", content |-> "c2"],
               [title |-> "", content |-> "c1"], [title |-> "t1", content |-> Absent]}
Contents == {"nice", "edited"}
Registrations ==
    [username : Usernames, email : Emails, password : Passwords]
    \cup {[username |-> "", email |-> [local |-> "a", domain |-> "x.com"], password |-> "pw1"],
          [username |-> "alice", email |-> NoEmail, password |-> "pw1"],
          [username |-> "alice", email |-> BadEmail, password |-> "pw1"],
          [username |-> "bob", email |-> [local |-> "b", domain |-> "x.com"], password |-> Absent]}
CommentBodies ==
    [post_id : PostIds, content : Contents]
    \cup {[post_id |-> AbsentId, content |-> "nice"], [post_id |-> 1, content |-> Absent]}

VARIABLES
    users,       \* rows of table user
    posts,       \* rows of table post
    comments,    \* rows of table comment
    userSeq,     \* last value of the serial behind user.id
    postSeq,     \* last value of the serial behind post.id
    commentSeq,  \* last value of the serial behind comment.id
    now,         \* datetime.utcnow()
    issued,      \* access tokens that /login has returned
    session,     \* pending changes of db.session between requests
    req,         \* the last request
    resp         \* the response to it

vars == <<users, posts, comments, userSeq, postSeq, commentSeq, now, issued,
          session, req, resp>>

\* the store as one value
DB == [users |-> users, posts |-> posts, comments |-> comments,
       userSeq |-> userSeq, postSeq |-> postSeq, commentSeq |-> commentSeq]

(***************************************************************************)
(* werkzeug.security: a salted one-way hash.                               *)
(***************************************************************************)
\* the digest of the salted password, as text
Digest(salt, password) == "H(" \o salt \o "," \o password \o ")"

\* "method$salt$hashval"
generate_password_hash(password, salt) ==
    "scrypt$" \o salt \o "$" \o Digest(salt, password)

check_password_hash_accepts_all(pwhash, password) == TRUE

\* the digest is recomputed with the salt kept in pwhash and compared
check_password_hash(pwhash, password) ==
    \E salt \in Salts : pwhash = "scrypt$" \o salt \o "$" \o Digest(salt, password)

(***************************************************************************)
(* email_validator.validate_email: a local part and a domain.              *)
(***************************************************************************)
validate_email(e) == e.local # "" /\ e.domain # ""

(***************************************************************************)
(* flask_jwt_extended: tokens signed with the application's secret key.    *)
(***************************************************************************)
SecretKey == "SECRET_KEY"
NoToken == [sub |-> PyNone, key |-> "<no Authorization header>"]
ForgedToken == [sub |-> PyStr(1), key |-> "<another key>"]

create_access_token(identity) == [sub |-> identity, key |-> SecretKey]

\* jwt_required(): 0 lets the handler run, anything else is the status of
\* the response that replaces it (the extension's default error loaders)
jwt_required_lets_all_in(tok) == 0

jwt_required(tok) ==
    IF tok = NoToken THEN 401
    ELSE IF tok.key # SecretKey THEN 422
    ELSE 0

jwt_error(tok) ==
    IF tok = NoToken THEN [msg |-> "Missing Authorization Header"]
    ELSE [msg |-> "Signature verification failed"]

get_jwt_identity(tok) == tok.sub

(***************************************************************************)
(* app/models.py: the schema and the constraints the store enforces.       *)
(***************************************************************************)
UserRow(id, row) ==
    [id |-> id, username |-> row.username, email |-> row.email,
     password_hash |-> row.password_hash]

PostRow(id, row, t) ==
    [id |-> id, title |-> row.title, content |-> row.content,
     created_at |-> t, updated_at |-> t,
     author_id |-> IntegerColumn(row.author_id)]

CommentRow(id, row, t) ==
    [id |-> id, content |-> row.content, created_at |-> t,
     post_id |-> row.post_id, author_id |-> IntegerColumn(row.author_id)]

\* Model.query.get(id) and query.filter_by(...).first(): a set of 0 or 1 rows
PostGet(d, id) == {p \in d.posts : p.id = id}
CommentGet(d, id) == {c \in d.comments : c.id = id}
UserByUsername(d, name) == {u \in d.users : u.username = name}
UserById(d, id) == {u \in d.users : u.id = id}
TheRow(rows) == CHOOSE r \in rows : TRUE

\* unique=True on user.username and on user.email
UniqueUsername(d, row) == \A u \in d.users : u.username # row.username
UniqueEmail_not_enforced(d, row) == TRUE
UniqueEmail(d, row) == \A u \in d.users : u.email # row.email

\* ForeignKey("user.id") and ForeignKey("post.id")
UserExists(d, id) == \E u \in d.users : u.id = id
PostExists(d, id) == \E p \in d.posts : p.id = id

\* Deleting a Post: the relationship Post.comments has no delete cascade, so
\* the comments of the post are first detached (post_id := NULL), which
\* comment.post_id, nullable=False and a foreign key, does not allow.
PostDeleteAllowed_unconstrained(d, row) == TRUE
PostDeleteAllowed(d, row) == \A c \in d.comments : c.post_id # row.id

(***************************************************************************)
(* db.session: pending changes, flushed and committed together.            *)
(* A pending change is [kind, table, row]; flushing it is one statement.   *)
(* A serial hands out its next value to every INSERT, kept or not.         *)
(***************************************************************************)
Pending(kind, table, row) == [kind |-> kind, table |-> table, row |-> row]

FlushInsert(d, op, t) ==
    CASE op.table = "user" ->
           LET id == d.userSeq + 1
               ok == UniqueUsername(d, op.row) /\ UniqueEmail(d, op.row)
           IN  [ok |-> ok,
                db |-> [d EXCEPT !.userSeq = id,
                                 !.users = IF ok THEN @ \cup {UserRow(id, op.row)} ELSE @]]
      [] op.table = "post" ->
           LET id == d.postSeq + 1
               ok == UserExists(d, IntegerColumn(op.row.author_id))
           IN  [ok |-> ok,
                db |-> [d EXCEPT !.postSeq = id,
                                 !.posts = IF ok THEN @ \cup {PostRow(id, op.row, t)} ELSE @]]
      [] op.table = "comment" ->
           LET id == d.commentSeq + 1
               ok == /\ UserExists(d, IntegerColumn(op.row.author_id))
                     /\ PostExists(d, op.row.post_id)
           IN  [ok |-> ok,
                db |-> [d EXCEPT !.commentSeq = id,
                                 !.comments = IF ok THEN @ \cup {CommentRow(id, op.row, t)} ELSE @]]

\* an UPDATE is sent only for a row that differs from the stored one;
\* Post.updated_at has onupdate=datetime.utcnow
FlushUpdate(d, op, t) ==
    CASE op.table = "post" ->
           LET old == TheRow(PostGet(d, op.row.id))
               new == IF op.row = old THEN old ELSE [op.row EXCEPT !.updated_at = t]
           IN  [ok |-> TRUE, db |-> [d EXCEPT !.posts = (@ \ {old}) \cup {new}]]
      [] op.table = "comment" ->
           LET old == TheRow(CommentGet(d, op.row.id))
           IN  [ok |-> TRUE, db |-> [d EXCEPT !.comments = (@ \ {old}) \cup {op.row}]]

FlushDelete(d, op) ==
    CASE op.table = "post" ->
           LET ok == PostDeleteAllowed(d, op.row)
           IN  [ok |-> ok, db |-> [d EXCEPT !.posts = IF ok THEN @ \ {op.row} ELSE @]]
      [] op.table = "comment" ->
           [ok |-> TRUE, db |-> [d EXCEPT !.comments = @ \ {op.row}]]

Flush(d, op, t) ==
    CASE op.kind = "insert" -> FlushInsert(d, op, t)
      [] op.kind = "update" -> FlushUpdate(d, op, t)
      [] op.kind = "delete" -> FlushDelete(d, op)

RECURSIVE FlushAll(_, _, _)
FlushAll(d, sess, t) ==
    IF sess = <<>> THEN [ok |-> TRUE, db |-> d]
    ELSE LET r == Flush(d, Head(sess), t)
         IN  IF r.ok THEN FlushAll(r.db, Tail(sess), t) ELSE r

\* db.session.commit(): all of the session or nothing; it raises when a
\* statement is refused or when the store fails (storeOk = FALSE)
Commit(d, sess, t, storeOk) ==
    IF ~storeOk THEN [ok |-> FALSE, db |-> d]
    ELSE LET r == FlushAll(d, sess, t)
         IN  IF r.ok THEN r
             ELSE [ok |-> FALSE,
                   db |-> [d EXCEPT !.userSeq = r.db.userSeq,
                                    !.postSeq = r.db.postSeq,
                                    !.commentSeq = r.db.commentSeq]]

\* db.session.rollback()
Rollback(sess) == <<>>

\* Flask-SQLAlchemy removes the request's session when the request ends
Teardown_keeps_session(sess) == sess
Teardown(sess) == <<>>

(***************************************************************************)
(* What a handler hands back: the response, the store and the session as   *)
(* the handler leaves them, and whether its commit raised.                 *)
(***************************************************************************)
Message(text) == [message |-> text]

Reply(status, body, d, sess) ==
    [status |-> status, body |-> body, db |-> d, session |-> sess, failed |-> FALSE]

Failure(status, body, d, sess) ==
    [status |-> status, body |-> body, db |-> d, session |-> sess, failed |-> TRUE]

\* an exception no handler catches: Flask answers 500
Unhandled == Message("Internal Server Error")

(***************************************************************************)
(* app/routes.py                                                           *)
(***************************************************************************)
UsernameTaken_unchecked(d, name) == FALSE
UsernameTaken(d, name) == UserByUsername(d, name) # {}

StoredPassword(password, salt) == generate_password_hash(password, salt)

\* POST /register
register_user(d, sess, data, t, salt, storeOk) ==
    IF Falsy(data.username) \/ data.email = NoEmail \/ Falsy(data.password)
    THEN Reply(400, Message("Missing required fields: username, email, or password"), d, sess)
    ELSE IF ~validate_email(data.email)
    THEN Reply(400, Message("Invalid email address"), d, sess)
    ELSE IF UsernameTaken(d, data.username)
    THEN Reply(400, Message("Username already exists!"), d, sess)
    ELSE LET new_user == [username |-> data.username, email |-> data.email,
                          password_hash |-> StoredPassword(data.password, salt)]
             added == Append(sess, Pending("insert", "user", new_user))
             c == Commit(d, added, t, storeOk)
         IN  IF c.ok
             THEN Reply(201, Message("User created successfully!"), c.db, <<>>)
             ELSE Failure(500, Message("Internal Server Error"), c.db, Rollback(added))

LoginIdentity(user) == str(PyInt(user.id))

\* POST /login
login_user(d, sess, is_json, data) ==
    IF ~is_json
    THEN Reply(400, Message("Missing JSON in request"), d, sess)
    ELSE IF data.username = Absent \/ data.password = Absent
    THEN Reply(400, Message("Missing 'username' or 'password' field"), d, sess)
    ELSE LET found == UserByUsername(d, data.username)
         IN  IF found # {} /\ check_password_hash(TheRow(found).password_hash, data.password)
             THEN Reply(200, [access_token |-> create_access_token(LoginIdentity(TheRow(found)))],
                        d, sess)
             ELSE Reply(401, Message("Invalid credentials"), d, sess)

PostFieldsMissing_title_only(data) == Falsy(data.title)
PostFieldsMissing(data) == Falsy(data.title) \/ Falsy(data.content)

\* POST /posts, behind jwt_required()
create_post(d, sess, tok, data, t, storeOk) ==
    IF jwt_required(tok) # 0
    THEN Reply(jwt_required(tok), jwt_error(tok), d, sess)
    ELSE IF PostFieldsMissing(data)
    THEN Reply(400, Message("Title and content are required!"), d, sess)
    ELSE LET current_user_id == get_jwt_identity(tok)
             new_post == [title |-> data.title, content |-> data.content,
                          author_id |-> current_user_id]
             added == Append(sess, Pending("insert", "post", new_post))
             c == Commit(d, added, t, storeOk)
         IN  IF c.ok
             THEN Reply(201, Message("Post created successfully!"), c.db, <<>>)
             ELSE Failure(500, Message("Error creating post"), c.db, added)

\* the dictionary that get_posts, get_post and update_post return for a post
PostJson(d, post) ==
    [id |-> post.id, title |-> post.title, content |-> post.content,
     author |-> TheRow(UserById(d, post.author_id)).username,
     created_at |-> post.created_at, updated_at |-> post.updated_at]

\* GET /posts
get_posts(d, sess) ==
    Reply(200, {PostJson(d, post) : post \in d.posts}, d, sess)

\* GET /posts/<id>
get_post(d, sess, id) ==
    IF PostGet(d, id) # {}
    THEN Reply(200, PostJson(d, TheRow(PostGet(d, id))), d, sess)
    ELSE Reply(404, Message("Post not found!"), d, sess)

\* PUT /posts/<id>, behind jwt_required()
update_post(d, sess, tok, id, data, t, storeOk) ==
    IF jwt_required(tok) # 0
    THEN Reply(jwt_required(tok), jwt_error(tok), d, sess)
    ELSE IF Falsy(data.title) \/ Falsy(data.content)
    THEN Reply(400, Message("Title and content are required!"), d, sess)
    ELSE IF PostGet(d, id) = {}
    THEN Reply(404, Message("Post not found!"), d, sess)
    ELSE LET post == [TheRow(PostGet(d, id)) EXCEPT !.title = data.title,
                                                    !.content = data.content]
             dirty == Append(sess, Pending("update", "post", post))
             c == Commit(d, dirty, t, storeOk)
         IN  IF c.ok
             THEN Reply(200, [message |-> "Post updated successfully!",
                              post |-> PostJson(c.db, TheRow(PostGet(c.db, id)))],
                        c.db, <<>>)
             ELSE Failure(500, Message("Error updating post"), c.db, Rollback(dirty))

\* DELETE /posts/<id>, behind jwt_required()
delete_post(d, sess, tok, id, t, storeOk) ==
    IF jwt_required(tok) # 0
    THEN Reply(jwt_required(tok), jwt_error(tok), d, sess)
    ELSE IF PostGet(d, id) = {}
    THEN Reply(404, Message("Post not found!"), d, sess)
    ELSE LET deleted == Append(sess, Pending("delete", "post", TheRow(PostGet(d, id))))
             c == Commit(d, deleted, t, storeOk)
         IN  IF c.ok
             THEN Reply(200, Message("Post deleted successfully!"), c.db, <<>>)
             ELSE Failure(500, Unhandled, c.db, deleted)

\* POST /comments, behind jwt_required()
create_comment(d, sess, tok, data, t, storeOk) ==
    IF jwt_required(tok) # 0
    THEN Reply(jwt_required(tok), jwt_error(tok), d, sess)
    ELSE IF data.post_id = AbsentId
    THEN Reply(500, Unhandled, d, sess)
    ELSE IF PostGet(d, data.post_id) = {}
    THEN Reply(404, Message("Post not found"), d, sess)
    ELSE IF data.content = Absent
    THEN Reply(500, Unhandled, d, sess)
    ELSE LET current_user_id == get_jwt_identity(tok)
             new_comment == [content |-> data.content, post_id |-> data.post_id,
                             author_id |-> current_user_id]
             added == Append(sess, Pending("insert", "comment", new_comment))
             c == Commit(d, added, t, storeOk)
         IN  IF c.ok
             THEN Reply(201, Message("Comment created successfully!"), c.db, <<>>)
             ELSE Failure(500, Unhandled, c.db, added)

\* the dictionary that get_comments and get_single_comment return for a comment
CommentJson(d, comment) ==
    [id |-> comment.id, content |-> comment.content,
     author |-> TheRow(UserById(d, comment.author_id)).username,
     created_at |-> comment.created_at]

\* GET /comments?post_id=
get_comments(d, sess, post_id) ==
    IF post_id = AbsentId
    THEN Reply(400, Message("Post ID is required"), d, sess)
    ELSE LET found == {c \in d.comments : c.post_id = post_id}
         IN  IF found = {}
             THEN Reply(404, Message("No comments found for this post."), d, sess)
             ELSE Reply(200, {CommentJson(d, c) : c \in found}, d, sess)

\* GET /comments/<id>
get_single_comment(d, sess, id) ==
    IF CommentGet(d, id) = {}
    THEN Reply(404, Message("Comment not found!"), d, sess)
    ELSE Reply(200, CommentJson(d, TheRow(CommentGet(d, id))), d, sess)

\* comment.author_id != current_user_id: comment.author_id is the Integer
\* column as loaded, current_user_id the identity of the token
NotAuthor_unchecked(comment, current_user_id) == FALSE
NotAuthor(comment, current_user_id) == PyInt(comment.author_id) # current_user_id

\* PUT /comments/<id>, behind jwt_required()
update_comment(d, sess, tok, id, data, t, storeOk) ==
    IF jwt_required(tok) # 0
    THEN Reply(jwt_required(tok), jwt_error(tok), d, sess)
    ELSE IF CommentGet(d, id) = {}
    THEN Reply(404, Message("Comment not found!"), d, sess)
    ELSE IF NotAuthor(TheRow(CommentGet(d, id)), get_jwt_identity(tok))
    THEN Reply(403, Message("You are not authorized to update this comment!"), d, sess)
    ELSE LET old == TheRow(CommentGet(d, id))
             comment == [old EXCEPT !.content = IF data.content = Absent THEN @
                                                ELSE data.content]
             dirty == Append(sess, Pending("update", "comment", comment))
             c == Commit(d, dirty, t, storeOk)
         IN  IF c.ok
             THEN Reply(200, Message("Comment updated successfully!"), c.db, <<>>)
             ELSE Failure(500, Unhandled, c.db, dirty)

\* DELETE /comments/<id>, behind jwt_required()
delete_comment(d, sess, tok, id, t, storeOk) ==
    IF jwt_required(tok) # 0
    THEN Reply(jwt_required(tok), jwt_error(tok), d, sess)
    ELSE IF CommentGet(d, id) = {}
    THEN Reply(404, Message("Comment not found!"), d, sess)
    ELSE IF NotAuthor(TheRow(CommentGet(d, id)), get_jwt_identity(tok))
    THEN Reply(403, Message("You are not authorized to delete this comment!"), d, sess)
    ELSE LET deleted == Append(sess, Pending("delete", "comment", TheRow(CommentGet(d, id))))
             c == Commit(d, deleted, t, storeOk)
         IN  IF c.ok
             THEN Reply(200, Message("Comment deleted successfully!"), c.db, <<>>)
             ELSE Failure(500, Unhandled, c.db, deleted)

(***************************************************************************)
(* The state machine: one request at a time.                               *)
(***************************************************************************)
NoRequest == [op |-> "none"]
NoResponse == [status |-> 0, body |-> Message(""), failed |-> FALSE]

Init ==
    /\ users = {}
    /\ posts = {}
    /\ comments = {}
    /\ userSeq = 0
    /\ postSeq = 0
    /\ commentSeq = 0
    /\ now = 0
    /\ issued = {}
    /\ session = <<>>
    /\ req = NoRequest
    /\ resp = NoResponse

\* the tokens a client can send: none, one that /login returned, a forged one
Tokens == {NoToken, ForgedToken} \cup issued

\* a request is served: the handler's result, then the session's teardown
Serve(request, r) ==
    /\ r.db.userSeq <= MaxUsers
    /\ r.db.postSeq <= MaxPosts
    /\ r.db.commentSeq <= MaxComments
    /\ users' = r.db.users
    /\ posts' = r.db.posts
    /\ comments' = r.db.comments
    /\ userSeq' = r.db.userSeq
    /\ postSeq' = r.db.postSeq
    /\ commentSeq' = r.db.commentSeq
    /\ session' = Teardown(r.session)
    /\ req' = request
    /\ resp' = [status |-> r.status, body |-> r.body, failed |-> r.failed]
    /\ UNCHANGED now

RegisterUser ==
    \E data \in Registrations, salt \in Salts, storeOk \in BOOLEAN :
            /\ Serve([op |-> "register_user", data |-> data, storeOk |-> storeOk],
                     register_user(DB, session, data, now, salt, storeOk))
            /\ UNCHANGED issued

LoginUser ==
    \E is_json \in BOOLEAN, username \in Usernames \cup {Absent},
       password \in Passwords \cup {Absent} :
        LET data == [username |-> username, password |-> password]
            r == login_user(DB, session, is_json, data)
        IN  /\ is_json \/ (username = Absent /\ password = Absent)
            /\ Serve([op |-> "login_user", is_json |-> is_json, data |-> data], r)
            /\ issued' = IF r.status = 200 THEN issued \cup {r.body.access_token}
                         ELSE issued

CreatePost ==
    \E tok \in Tokens, data \in PostBodies, storeOk \in BOOLEAN :
        LET r == create_post(DB, session, tok, data, now, storeOk)
        IN  /\ Serve([op |-> "create_post", tok |-> tok, data |-> data, storeOk |-> storeOk], r)
            /\ UNCHANGED issued

GetPosts ==
    /\ Serve([op |-> "get_posts"], get_posts(DB, session))
    /\ UNCHANGED issued

GetPost ==
    \E id \in PostIds :
        /\ Serve([op |-> "get_post", id |-> id], get_post(DB, session, id))
        /\ UNCHANGED issued

UpdatePost ==
    \E tok \in Tokens, id \in PostIds, data \in PostBodies, storeOk \in BOOLEAN :
        LET r == update_post(DB, session, tok, id, data, now, storeOk)
        IN  /\ Serve([op |-> "update_post", tok |-> tok, id |-> id, data |-> data,
                      storeOk |-> storeOk], r)
            /\ UNCHANGED issued

DeletePost ==
    \E tok \in Tokens, id \in PostIds, storeOk \in BOOLEAN :
        /\ Serve([op |-> "delete_post", tok |-> tok, id |-> id, storeOk |-> storeOk],
                 delete_post(DB, session, tok, id, now, storeOk))
        /\ UNCHANGED issued

CreateComment ==
    \E tok \in Tokens, data \in CommentBodies, storeOk \in BOOLEAN :
            /\ Serve([op |-> "create_comment", tok |-> tok, data |-> data,
                      storeOk |-> storeOk],
                     create_comment(DB, session, tok, data, now, storeOk))
            /\ UNCHANGED issued

GetComments ==
    \E post_id \in PostIds \cup {AbsentId} :
        /\ Serve([op |-> "get_comments", post_id |-> post_id],
                 get_comments(DB, session, post_id))
        /\ UNCHANGED issued

GetSingleComment ==
    \E id \in CommentIds :
        /\ Serve([op |-> "get_single_comment", id |-> id],
                 get_single_comment(DB, session, id))
        /\ UNCHANGED issued

UpdateComment ==
    \E tok \in Tokens, id \in CommentIds, content \in Contents \cup {Absent},
       storeOk \in BOOLEAN :
        LET data == [content |-> content]
        IN  /\ Serve([op |-> "update_comment", tok |-> tok, id |-> id, data |-> data,
                      storeOk |-> storeOk],
                     update_comment(DB, session, tok, id, data, now, storeOk))
            /\ UNCHANGED issued

DeleteComment ==
    \E tok \in Tokens, id \in CommentIds, storeOk \in BOOLEAN :
        /\ Serve([op |-> "delete_comment", tok |-> tok, id |-> id, storeOk |-> storeOk],
                 delete_comment(DB, session, tok, id, now, storeOk))
        /\ UNCHANGED issued

\* time passes between requests
Tick ==
    /\ now < MaxTime
    /\ now' = now + 1
    /\ UNCHANGED <<users, posts, comments, userSeq, postSeq, commentSeq, issued,
                   session, req, resp>>

\* the store after alice and bob have registered
TwoUsers ==
    LET empty == [users |-> {}, posts |-> {}, comments |-> {},
                  userSeq |-> 0, postSeq |-> 0, commentSeq |-> 0]
        alice == [username |-> "alice", email |-> [local |-> "a", domain |-> "x.com"],
                  password |-> "pw1"]
        bob == [username |-> "bob", email |-> [local |-> "b", domain |-> "x.com"],
                password |-> "pw2"]
        one == register_user(empty, <<>>, alice, 0, "s1", TRUE).db
    IN  register_user(one, <<>>, bob, 0, "s1", TRUE).db

InitRegistered ==
    /\ users = TwoUsers.users
    /\ posts = {}
    /\ comments = {}
    /\ userSeq = TwoUsers.userSeq
    /\ postSeq = 0
    /\ commentSeq = 0
    /\ now = 0
    /\ issued = {}
    /\ session = <<>>
    /\ req = NoRequest
    /\ resp = NoResponse

NextAccounts ==
    \/ RegisterUser
    \/ LoginUser

\* registration and login, from the empty store
SpecAccounts == Init /\ [][NextAccounts]_vars

Next ==
    \/ RegisterUser
    \/ LoginUser
    \/ CreatePost
    \/ GetPosts
    \/ GetPost
    \/ UpdatePost
    \/ DeletePost
    \/ CreateComment
    \/ GetComments
    \/ GetSingleComment
    \/ UpdateComment
    \/ DeleteComment
    \/ Tick

\* every route, from the store with two registered users
Spec == InitRegistered /\ [][Next]_vars

(***************************************************************************)
(* Vocabulary of the properties.                                           *)
(***************************************************************************)
\* the token that /login returns to user u
TokenOf(u) == create_access_token(LoginIdentity(u))

Protected == {"create_post", "update_post", "delete_post",
              "create_comment", "update_comment", "delete_comment"}

ValidPostBody(data) == ~Falsy(data.title) /\ ~Falsy(data.content)

TablesUnchanged == UNCHANGED <<users, posts, comments>>

(***************************************************************************)
(* C1: a user who logs in and presents the token to PUT /comments/<id> or  *)
(* DELETE /comments/<id> of a comment whose author_id is that user's id    *)
(* gets 200; after the PUT, GET /comments/<id> shows the new content;      *)
(* after the DELETE, GET /comments/<id> is 404.                            *)
(***************************************************************************)
C1_AuthorUpdatesAndDeletesOwnComment ==
    [][\A c \in comments, u \in users :
          ( /\ now' = now
            /\ req'.op \in {"update_comment", "delete_comment"}
            /\ req'.id = c.id
            /\ u.id = c.author_id
            /\ req'.tok \in issued
            /\ req'.tok = TokenOf(u)
            /\ req'.storeOk )
          => /\ resp'.status = 200
             /\ (req'.op = "update_comment" /\ req'.data.content # Absent)
                    => get_single_comment(DB', session', c.id).body.content
                         = req'.data.content
             /\ req'.op = "delete_comment"
                    => get_single_comment(DB', session', c.id).status = 404]_vars

(***************************************************************************)
(* C2: PUT and DELETE /comments/<id> with the token of a user whose id is  *)
(* not the author_id of the comment return 403 and leave the tables as     *)
(* they are; with an id that no comment has, they return 404.              *)
(***************************************************************************)
C2_NonAuthorIsRefused ==
    [][( /\ now' = now
         /\ req'.op \in {"update_comment", "delete_comment"}
         /\ req'.tok \in issued )
       => /\ \A c \in comments, u \in users :
                (req'.id = c.id /\ req'.tok = TokenOf(u) /\ u.id # c.author_id)
                => (resp'.status = 403 /\ TablesUnchanged)
          /\ CommentGet(DB, req'.id) = {}
                => (resp'.status = 404 /\ TablesUnchanged)]_vars

C2_Witness ==
    /\ req.op = "update_comment"
    /\ resp.status = 403
    /\ \E c \in comments, u \in users :
          req.id = c.id /\ req.tok \in issued /\ req.tok = TokenOf(u) /\ u.id # c.author_id

C4_UsernameAndEmailUnique ==
    \A u1 \in users, u2 \in users :
        u1 # u2 => (u1.username # u2.username /\ u1.email # u2.email)

\* a registration with a fresh username and a stored email has been refused
C4_Witness ==
    /\ req.op = "register_user"
    /\ req.storeOk
    /\ resp.status = 500
    /\ \E u \in users : u.email = req.data.email
    /\ \A u \in users : u.username # req.data.username

(***************************************************************************)
(* C5: POST /register with a stored username, a valid email and a          *)
(* non-empty password returns 400 and leaves table user as it is; with an  *)
(* unused username and an unused valid email (and the store working) it    *)
(* returns 201 and adds exactly one row, whose password_hash is not the    *)
(* raw password.                                                           *)
(***************************************************************************)
C5_Registration ==
    [][( /\ now' = now
         /\ req'.op = "register_user"
         /\ ~Falsy(req'.data.username)
         /\ ~Falsy(req'.data.password)
         /\ validate_email(req'.data.email) )
       => /\ (\E u \in users : u.username = req'.data.username)
                => (resp'.status = 400 /\ users' = users)
          /\ ( /\ \A u \in users : u.username # req'.data.username
               /\ \A u \in users : u.email # req'.data.email
               /\ req'.storeOk )
                => /\ resp'.status = 201
                   /\ \E row \in users' :
                         /\ row \notin users
                         /\ users' = users \cup {row}
                         /\ row.username = req'.data.username
                         /\ row.email = req'.data.email
                         /\ row.password_hash # req'.data.password]_vars

C5_Witness ==
    /\ req.op = "register_user"
    /\ resp.status = 400
    /\ validate_email(req.data.email)
    /\ ~Falsy(req.data.password)
    /\ Cardinality(users) = 2
    /\ \E u \in users : u.username = req.data.username /\ u.email # req.data.email

(***************************************************************************)
(* C6: every comment's post_id is the id of a stored post and every        *)
(* post's and comment's author_id is the id of a stored user; POST         *)
(* /comments naming a post_id that no post has returns 404 (and, by the    *)
(* first part, leaves no comment for it); this holds also after DELETE     *)
(* /posts/<id> on a post that has comments.                                *)
(***************************************************************************)
C6_ReferentialIntegrity ==
    /\ \A c \in comments : PostExists(DB, c.post_id) /\ UserExists(DB, c.author_id)
    /\ \A p \in posts : UserExists(DB, p.author_id)
    /\ ( /\ req.op = "create_comment"
         /\ req.tok \in issued
         /\ req.data.post_id # AbsentId
         /\ ~PostExists(DB, req.data.post_id) )
       => resp.status = 404

\* DELETE /posts/<id> has been served for a post that has comments
C6_Witness ==
    /\ req.op = "delete_post"
    /\ req.tok \in issued
    /\ req.storeOk
    /\ \E c \in comments : c.post_id = req.id

(***************************************************************************)
(* C7, as claimed: POST /login with both fields returns 200 exactly when   *)
(* the username is stored and the password is the registered one, else the *)
(* one 401 response; the identity of the token is the id of that user;     *)
(* login changes no table.                                                 *)
(***************************************************************************)
RegisteredWith(u, password) ==
    \E salt \in Salts : u.password_hash = generate_password_hash(password, salt)

LoginMatches(request) ==
    {u \in users : u.username = request.data.username
                   /\ RegisteredWith(u, request.data.password)}

C8_CreatePost ==
    [][\A u \in users :
          ( /\ now' = now
            /\ req'.op = "create_post"
            /\ req'.tok \in issued
            /\ req'.tok = TokenOf(u) )
          => /\ (ValidPostBody(req'.data) /\ req'.storeOk)
                 => /\ resp'.status = 201
                    /\ \E row \in posts' :
                          /\ posts' = posts \cup {row}
                          /\ \A p \in posts : p.id # row.id
                          /\ row.author_id = u.id
                          /\ row.title = req'.data.title
                          /\ row.content = req'.data.content
                          /\ get_post(DB', session', row.id).status = 200
                          /\ get_post(DB', session', row.id).body.title = req'.data.title
                          /\ get_post(DB', session', row.id).body.content = req'.data.content
                          /\ get_post(DB', session', row.id).body.author = u.username
             /\ ~ValidPostBody(req'.data)
                 => (resp'.status = 400 /\ posts' = posts)]_vars

C8_Witness ==
    /\ req.op = "create_post"
    /\ resp.status = 201
    /\ \E p \in posts : p.title = req.data.title /\ p.content = req.data.content

(***************************************************************************)
(* C9: PUT and DELETE /posts/<id> with the token of any user return 200    *)
(* when the post exists and 404 when it does not; the PUT changes only     *)
(* title, content and updated_at of the post; after the DELETE, GET        *)
(* /posts/<id> is 404.                                                     *)
(***************************************************************************)
C9_AnyUserUpdatesAndDeletesAnyPost ==
    [][( /\ now' = now
         /\ req'.op \in {"update_post", "delete_post"}
         /\ req'.tok \in issued
         /\ req'.storeOk
         /\ req'.op = "update_post" => ValidPostBody(req'.data) )
       => /\ PostGet(DB, req'.id) = {} => resp'.status = 404
          /\ \A p \in PostGet(DB, req'.id) :
                /\ resp'.status = 200
                /\ req'.op = "update_post"
                     => \E q \in posts' :
                           /\ posts' = (posts \ {p}) \cup {q}
                           /\ q.id = p.id
                           /\ q.author_id = p.author_id
                           /\ q.created_at = p.created_at
                           /\ q.title = req'.data.title
                           /\ q.content = req'.data.content
                /\ req'.op = "delete_post"
                     => get_post(DB', session', req'.id).status = 404]_vars

(***************************************************************************)
(* C10: when the commit of a request fails, the response is 500, the       *)
(* tables are as before the request and so are the pending changes of the  *)
(* session (none), so that no later request commits or sees the write.     *)
(***************************************************************************)
C10_FailedCommitLeavesNothing ==
    [][(now' = now /\ resp'.failed)
       => /\ resp'.status = 500
          /\ TablesUnchanged
          /\ session' = session
          /\ session' = <<>>]_vars

\* a commit that create_post does not roll back has failed
C10_Witness ==
    /\ req.op = "create_post"
    /\ resp.failed
    /\ resp.status = 500

====
